---- MODULE Spec2Model ----
(***************************************************************************)
(* A model of randomart's core (src/lib.rs): the expression tree Node, its *)
(* evaluator (eval, eval_rgb, extract_channels_from_triple) and the        *)
(* grammar generation engine (Grammar::gen_rule, Grammar::gen_node).       *)
(*                                                                         *)
(* Generation is modelled as a small-step machine over an explicit call    *)
(* stack, one action per arm of the code; the evaluator, a pure function,  *)
(* is a recursive operator.  f32 values are fixed-point integers in units  *)
(* of 1e-6 (the evaluator's division threshold), plus the value NaN.       *)
(***************************************************************************)
EXTENDS Integers, Sequences, FiniteSets, TLC

\* ------------------------------------------------------------------ bounds

\* Largest depth argument of a gen_rule call.
MaxDepth == 3

\* Number of gen_rule calls made in one behaviour.
MaxCalls == 2

\* Seeds range over 0..MaxSeed.
MaxSeed == 1

\* Largest depth argument of a gen_rule call on the default grammar.
MaxDefaultDepth == 7

\* ------------------------------------------------------- program constants

\* The retry ceiling of gen_rule's loop, `for _ in 0..100`.
MaxAttempts == 100

\* 1.0 in fixed-point units of 1e-6.
One == 1000000

\* The threshold 1e-6 of Div and Modulo, in units of 1e-6.
Eps == 1

\* Probabilities are numerators over PDen (1/13 is 3, 1/3 is 13).
PDen == 39

\* --------------------------------------------------------------- Node

X == <<"X">>
Y == <<"Y">>
Random == <<"Random">>
Rule(i) == <<"Rule", i>>
Number(v) == <<"Number", v>>
Boolean(b) == <<"Boolean", b>>
Sqrt(a) == <<"Sqrt", a>>
Sin(a) == <<"Sin", a>>
Cos(a) == <<"Cos", a>>
Exp(a) == <<"Exp", a>>
Add(l, r) == <<"Add", l, r>>
Mult(l, r) == <<"Mult", l, r>>
Div(l, r) == <<"Div", l, r>>
Modulo(l, r) == <<"Modulo", l, r>>
Gt(l, r) == <<"Gt", l, r>>
Triple(a, b, c) == <<"Triple", a, b, c>>
If(c, t, e) == <<"If", c, t, e>>
Mix(a, b, c, d) == <<"Mix", a, b, c, d>>

Tag(n) == n[1]

\* Leaves that include the placeholder Random.
LeafTagsAndRandom == {"X", "Y", "Number", "Boolean", "Random"}

\* The templates gen_node copies: X, Y, Number, Boolean.
LeafTags == {"X", "Y", "Number", "Boolean"}
UnaryTags == {"Sqrt", "Sin", "Cos", "Exp"}
BinaryTags == {"Add", "Mult", "Modulo", "Gt", "Div"}
OperatorTags == UnaryTags \cup BinaryTags \cup {"Triple", "If", "Mix"}

\* The children of an operator node, in declaration order.
Operands(n) == SubSeq(n, 2, Len(n))

\* Option<T>
None == <<"None">>
Some(v) == <<"Some", v>>
IsSome(o) == o[1] = "Some"
Unwrap(o) == o[2]

\* ------------------------------------------------ pseudorandom source

\* The linear congruential generator of utils (not part of src/): a
\* full-period generator modulo LcgM; next_float is state / LcgM.
LcgM == 64
LcgA == 9
LcgC == 43

LcgNew(seed) == seed % LcgM

LcgNext(state) == (LcgA * state + LcgC) % LcgM

\* ------------------------------------------------------ rule tables

Branch(n, p) == [node |-> n, probability |-> p]

\* Grammar::default: E ::= (C, C, C);  C ::= A | Add(C, C) | ...;  A ::= x | y | random
DefaultRules ==
    << << Branch(Triple(Rule(1), Rule(1), Rule(1)), 39) >>,
       << Branch(Rule(2), 3),
          Branch(Add(Rule(1), Rule(1)), 3),
          Branch(Mult(Rule(1), Rule(1)), 3),
          Branch(Sin(Rule(1)), 9),
          Branch(Cos(Rule(1)), 9),
          Branch(Exp(Rule(1)), 3),
          Branch(Sqrt(Rule(1)), 3),
          Branch(Div(Rule(1), Rule(1)), 3),
          Branch(Mix(Rule(1), Rule(1), Rule(1), Rule(1)), 3) >>,
       << Branch(X, 13), Branch(Y, 13), Branch(Random, 13) >> >>

\* Rule tables handed to Grammar::build.
\* A rule that refers only to itself.
LoopRules == << << Branch(Rule(0), 39) >> >>

\* Two rules that refer to each other; the weights of rule 0 sum to less than 1.
MutualRules ==
    << << Branch(Add(Random, Rule(1)), 20), Branch(X, 10) >>,
       << Branch(Y, 13), Branch(Rule(0), 26) >> >>

\* Templates using every operator, Boolean leaves and a nested Triple.
MixedRules ==
    << << Branch(Triple(Rule(1), Random, Sin(Rule(1))), 39) >>,
       << Branch(Mix(X, Y, Random, Number(5)), 10),
          Branch(If(Gt(X, Random), Boolean(TRUE), Random), 10),
          Branch(Modulo(Random, Div(Y, Random)), 10),
          Branch(Triple(Random, Exp(Cos(X)), Sqrt(Mult(Random, Y))), 9) >> >>

\* A rule with no alternates, and a template naming a rule that does not exist.
BrokenRules ==
    << << Branch(Rule(1), 20), Branch(Rule(7), 19) >>,
       << >> >>

RuleTables == {LoopRules, MutualRules, MixedRules, BrokenRules}

Seeds == 0..MaxSeed

\* --------------------------------------------------------------- state

VARIABLES
    rules,    \* Grammar.rules
    seed,     \* the seed the grammar was built with
    rng,      \* Grammar.rng: the generator's state
    draws,    \* number of next_float calls since the grammar was built
    args,     \* the (rule, depth) the caller passes to gen_rule
    pc,       \* "idle" | "gen" | "panic"
    stack,    \* the call stack of gen_rule / gen_node activations, top last
    ret,      \* the value a callee has just returned to the top frame, or NoRet
    steps,    \* the steps gen_rule and gen_node have taken in the current call
    last,     \* what the gen_rule activation that returned last did
    log,      \* the completed top-level gen_rule calls
    node,     \* the Node the caller holds (an Option)
    out       \* the outcome of the last evaluator call

vars == <<rules, seed, rng, draws, args, pc, stack, ret, steps, last, log, node, out>>

NoRet == <<"NoRet">>
\* The outcome of an operation: op names it, x and y are its coordinates, val is
\* what it returned (or Panic), evals the invocations of eval it made.
Outcome(op, x, y, r) == [op |-> op, x |-> x, y |-> y, val |-> r.val, evals |-> r.evals]
Panic(msg) == <<"Panic", msg>>

\* An activation record. fn is "gen_rule" or "gen_node"; at is the position in
\* the function body; start is the number of draws made before the call.
\* gen_rule uses rule, attempt (the iterations of its loop that have ended),
\* pdraws (the selection values p it drew) and node (its local `node`);
\* gen_node uses tmpl (its argument `node`) and done (the operands expanded so far).
RuleFrame(r, d, n) ==
    [fn |-> "gen_rule", at |-> "entry", rule |-> r, depth |-> d, start |-> n,
     attempt |-> 0, pdraws |-> 0, node |-> None, tmpl |-> None, done |-> <<>>]

NodeFrame(t, d, n) ==
    [fn |-> "gen_node", at |-> "entry", rule |-> 0, depth |-> d, start |-> n,
     attempt |-> 0, pdraws |-> 0, node |-> None, tmpl |-> t, done |-> <<>>]

Top == stack[Len(stack)]
Pop == SubSeq(stack, 1, Len(stack) - 1)
SetTop(f) == [stack EXCEPT ![Len(stack)] = f]
Push(f, g) == Append(SetTop(f), g)

\* What the activation of gen_rule that returned last did: its arguments, the
\* iterations that failed, the p it drew, its return value and the draw counts
\* at its call and at its return.
NoLast == [rule |-> 0, depth |-> 0, attempt |-> 0, pdraws |-> 0, node |-> NoRet,
           start |-> 0, end |-> 0]

\* ------------------------------------------------ f32

\* An f32: a finite value v in units of 1e-6, or NaN. Results are truncated to
\* the unit; magnitudes stay below 2147 (no infinities).
Fin(v) == [nan |-> FALSE, v |-> v]
NaN == [nan |-> TRUE, v |-> 0]

Abs(a) == IF a < 0 THEN -a ELSE a
Sign(a) == IF a < 0 THEN -1 ELSE 1

\* |a| * |b| / One without an intermediate above 2^31 (a, b split at 10^3).
MulMag(a, b) ==
    LET a1 == a \div 1000  a0 == a % 1000
        b1 == b \div 1000  b0 == b % 1000
        m == a1 * b0 + a0 * b1
    IN  a1 * b1 + (m \div 1000) + (((m % 1000) * 1000 + a0 * b0) \div One)

\* |a| / |b| in units of 1e-6 by long division, three digits at a time.
DivMag(a, b) ==
    LET q0 == a \div b           r0 == a % b
        q1 == (r0 * 1000) \div b  r1 == (r0 * 1000) % b
        q2 == (r1 * 1000) \div b
    IN  q0 * One + q1 * 1000 + q2

RECURSIVE SqrtSearch(_, _, _)
SqrtSearch(v, lo, hi) ==
    IF lo >= hi THEN lo
    ELSE LET mid == (lo + hi + 1) \div 2
         IN  IF mid * mid <= v THEN SqrtSearch(v, mid, hi) ELSE SqrtSearch(v, lo, mid - 1)

FMul(a, b) ==
    IF a.nan \/ b.nan THEN NaN
    ELSE Fin(Sign(a.v) * Sign(b.v) * MulMag(Abs(a.v), Abs(b.v)))

\* a / b; 0 / 0 is NaN, and so is, in this model, x / 0.
FDiv(a, b) ==
    IF a.nan \/ b.nan \/ b.v = 0 THEN NaN
    ELSE Fin(Sign(a.v) * Sign(b.v) * DivMag(Abs(a.v), Abs(b.v)))

\* `a % b`: the remainder has the sign of the dividend.
FRem(a, b) ==
    IF a.nan \/ b.nan \/ b.v = 0 THEN NaN
    ELSE Fin(Sign(a.v) * (Abs(a.v) % Abs(b.v)))

FAdd(a, b) == IF a.nan \/ b.nan THEN NaN ELSE Fin(a.v + b.v)

\* a / 2.0
FHalf(a) == IF a.nan THEN NaN ELSE Fin(Sign(a.v) * (Abs(a.v) \div 2))

\* `a > b`: false when either is NaN.
FGt(a, b) == ~a.nan /\ ~b.nan /\ a.v > b.v

FAbs(a) == IF a.nan THEN NaN ELSE Fin(Abs(a.v))

\* f32::sqrt: NaN for a negative argument.
FSqrt(a) ==
    IF a.nan \/ a.v < 0 THEN NaN
    ELSE Fin(1000 * SqrtSearch(a.v, 0, 46340))

\* A maximum that is NaN as soon as one argument is.
FMaxPropagates(a, b) ==
    IF a.nan \/ b.nan THEN NaN
    ELSE IF a.v >= b.v THEN a ELSE b

\* f32::max: when one argument is NaN the other is returned.
FMax(a, b) ==
    IF a.nan THEN b
    ELSE IF b.nan THEN a
    ELSE IF a.v >= b.v THEN a ELSE b

\* f32::sin, cos, exp, to the order of their first terms.
FSin(a) == IF a.nan THEN NaN
           ELSE LET c == FMul(a, FMul(a, a)) IN Fin(a.v - Sign(c.v) * (Abs(c.v) \div 6))
FCos(a) == IF a.nan THEN NaN ELSE Fin(One - FMul(a, a).v \div 2)
FExp(a) == IF a.nan THEN NaN ELSE Fin(One + a.v + FMul(a, a).v \div 2)

\* ------------------------------------------------ Node::eval

\* The result of eval: val is None, Some(f32) or Panic(msg), and evals counts the
\* invocations of eval made to compute it.
Res(val, evals) == [val |-> val, evals |-> evals]

NoOut == Outcome("none", Fin(0), Fin(0), Res(None, 0))

Unreachable(n) ==
    IF Tag(n) = "Random"
    THEN Panic("all Node::Random instances are supposed to be converted into Node::Number during generation")
    ELSE IF Tag(n) = "Triple"
    THEN Panic("Node::Triple is only for the Entry rule")
    ELSE Panic("unexpected Node kind during eval")

\* A threshold test that lets a magnitude of exactly 1e-6 through.
AboveEpsInclusive(r) == ~r.nan /\ Abs(r.v) >= Eps

\* `rhs_val.abs() > 1e-6`
AboveEps(r) == FGt(FAbs(r), Fin(Eps))

\* `if rhs_val.abs() > 1e-6 { Some(lhs_val / rhs_val) } else { None }`
DivValue(l, r) == IF AboveEps(r) THEN Some(FDiv(l, r)) ELSE None

\* `if rhs_val.abs() > 1e-6 { Some(lhs_val % rhs_val) } else { None }`
ModuloValue(l, r) == IF AboveEps(r) THEN Some(FRem(l, r)) ELSE None

\* A comparison that counts equal operands as greater.
GtValueOrEqual(l, r) == Some(IF FGt(l, r) \/ l = r THEN Fin(One) ELSE Fin(0))

\* `Some(if lhs_val > rhs_val { 1.0 } else { 0.0 })`
GtValue(l, r) == Some(IF FGt(l, r) THEN Fin(One) ELSE Fin(0))

\* The value of a unary, binary or Mix arm from its operands' values.
Apply(tag, v) ==
    CASE tag = "Add" -> Some(FHalf(FAdd(v[1], v[2])))
      [] tag = "Mult" -> Some(FMul(v[1], v[2]))
      [] tag = "Sin" -> Some(FSin(v[1]))
      [] tag = "Cos" -> Some(FCos(v[1]))
      [] tag = "Exp" -> Some(FExp(v[1]))
      [] tag = "Sqrt" -> Some(FMax(FSqrt(v[1]), Fin(0)))
      [] tag = "Div" -> DivValue(v[1], v[2])
      [] tag = "Modulo" -> ModuloValue(v[1], v[2])
      [] tag = "Gt" -> GtValue(v[1], v[2])
      [] tag = "Mix" -> Some(FDiv(FAdd(FMul(v[1], v[3]), FMul(v[2], v[4])),
                                  FAdd(FAdd(v[1], v[2]), Fin(Eps))))

\* A test that takes every value other than zero for true.
SelectedNonZero(cond_value) == IF ~cond_value.nan /\ cond_value.v # 0 THEN 3 ELSE 4

\* `cond_value > 0.0`: the branch of an If that is evaluated (3: then, 4: elze).
Selected(cond_value) == IF FGt(cond_value, Fin(0)) THEN 3 ELSE 4

IsPanic(v) == v[1] = "Panic"

\* `.unwrap_or(0.0)`
UnwrapOr(o, default) == IF IsSome(o) THEN Unwrap(o) ELSE default

RECURSIVE Eval(_, _, _)

\* An operand walk that takes 0.0 for an operand without a value.
RECURSIVE EvalOperandsLenient(_, _, _, _, _, _)
EvalOperandsLenient(n, x, y, k, vals, evals) ==
    IF k > Len(n) THEN Res(Apply(Tag(n), vals), evals)
    ELSE LET r == Eval(n[k], x, y)
         IN  IF IsPanic(r.val)
             THEN Res(r.val, evals + r.evals)
             ELSE EvalOperandsLenient(n, x, y, k + 1,
                                      Append(vals, UnwrapOr(r.val, Fin(0))), evals + r.evals)

\* The operands of n from the k-th on, evaluated left to right with `?`: the
\* first operand without a value ends the arm. vals are the values so far.
RECURSIVE EvalOperands(_, _, _, _, _, _)
EvalOperands(n, x, y, k, vals, evals) ==
    IF k > Len(n) THEN Res(Apply(Tag(n), vals), evals)
    ELSE LET r == Eval(n[k], x, y)
         IN  IF IsSome(r.val)
             THEN EvalOperands(n, x, y, k + 1, Append(vals, Unwrap(r.val)), evals + r.evals)
             ELSE Res(r.val, evals + r.evals)

Eval(n, x, y) ==
    CASE Tag(n) = "X" -> Res(Some(x), 1)
      [] Tag(n) = "Y" -> Res(Some(y), 1)
      [] Tag(n) = "Number" -> Res(Some(Fin(n[2])), 1)
      [] Tag(n) \in {"Add", "Mult", "Sin", "Cos", "Exp", "Sqrt", "Div", "Mix", "Gt", "Modulo"} ->
            EvalOperands(n, x, y, 2, <<>>, 1)
      [] Tag(n) = "If" ->
            LET c == Eval(n[2], x, y)
            IN  IF IsSome(c.val)
                THEN LET b == Eval(n[Selected(Unwrap(c.val))], x, y)
                     IN  Res(b.val, 1 + c.evals + b.evals)
                ELSE Res(c.val, 1 + c.evals)
      [] OTHER -> Res(Unreachable(n), 1)

\* ------------------------------------------------ Node::eval_rgb

Colour(r, g, b) == <<"Colour", r, g, b>>

\* `if let Node::Triple(first, second, third) = self`
IsTriple(n) == Tag(n) = "Triple"

\* An eval_rgb that evaluates a root that is not a Triple as a grey level.
EvalRgbGrey(n, x, y) ==
    IF IsTriple(n)
    THEN LET r == Eval(n[2], x, y) IN
         IF IsPanic(r.val) THEN Res(r.val, r.evals) ELSE
         LET g == Eval(n[3], x, y) IN
         IF IsPanic(g.val) THEN Res(g.val, r.evals + g.evals) ELSE
         LET b == Eval(n[4], x, y) IN
         IF IsPanic(b.val) THEN Res(b.val, r.evals + g.evals + b.evals) ELSE
         Res(Colour(UnwrapOr(r.val, Fin(0)), UnwrapOr(g.val, Fin(0)), UnwrapOr(b.val, Fin(0))),
             r.evals + g.evals + b.evals)
    ELSE LET v == Eval(n, x, y) IN
         IF IsPanic(v.val) THEN Res(v.val, v.evals) ELSE
         Res(Colour(UnwrapOr(v.val, Fin(0)), UnwrapOr(v.val, Fin(0)), UnwrapOr(v.val, Fin(0))),
             v.evals)

\* An eval_rgb that gives up the whole colour when one channel has no value.
EvalRgbAllOrNothing(n, x, y) ==
    IF IsTriple(n)
    THEN LET r == Eval(n[2], x, y) IN
         IF IsPanic(r.val) THEN Res(r.val, r.evals) ELSE
         LET g == Eval(n[3], x, y) IN
         IF IsPanic(g.val) THEN Res(g.val, r.evals + g.evals) ELSE
         LET b == Eval(n[4], x, y) IN
         IF IsPanic(b.val) THEN Res(b.val, r.evals + g.evals + b.evals) ELSE
         IF IsSome(r.val) /\ IsSome(g.val) /\ IsSome(b.val)
         THEN Res(Colour(Unwrap(r.val), Unwrap(g.val), Unwrap(b.val)),
                  r.evals + g.evals + b.evals)
         ELSE Res(Colour(Fin(0), Fin(0), Fin(0)), r.evals + g.evals + b.evals)
    ELSE Res(Colour(Fin(0), Fin(0), Fin(0)), 0)

\* The channels are evaluated in order; a panic in one ends the call.
EvalRgb(n, x, y) ==
    IF IsTriple(n)
    THEN LET r == Eval(n[2], x, y) IN
         IF IsPanic(r.val) THEN Res(r.val, r.evals) ELSE
         LET g == Eval(n[3], x, y) IN
         IF IsPanic(g.val) THEN Res(g.val, r.evals + g.evals) ELSE
         LET b == Eval(n[4], x, y) IN
         IF IsPanic(b.val) THEN Res(b.val, r.evals + g.evals + b.evals) ELSE
         Res(Colour(UnwrapOr(r.val, Fin(0)), UnwrapOr(g.val, Fin(0)), UnwrapOr(b.val, Fin(0))),
             r.evals + g.evals + b.evals)
    ELSE Res(Colour(Fin(0), Fin(0), Fin(0)), 0)

\* ------------------------------------------------ Node::extract_channels_from_triple

\* `format!("{:?}", node)`: the derived Debug rendering (a Number is shown in
\* units of 1e-6).
RECURSIVE DebugFmt(_)
RECURSIVE DebugArgs(_, _)
DebugArgs(n, k) ==
    IF k > Len(n) THEN ""
    ELSE DebugFmt(n[k]) \o (IF k < Len(n) THEN ", " ELSE "") \o DebugArgs(n, k + 1)

DebugFmt(n) ==
    CASE Tag(n) \in {"X", "Y", "Random"} -> Tag(n)
      [] Tag(n) = "Rule" -> "Rule(" \o ToString(n[2]) \o ")"
      [] Tag(n) = "Number" -> "Number(" \o ToString(n[2]) \o "e-6)"
      [] Tag(n) = "Boolean" -> "Boolean(" \o (IF n[2] THEN "true" ELSE "false") \o ")"
      [] Tag(n) = "If" -> "If { cond: " \o DebugFmt(n[2]) \o ", then: " \o DebugFmt(n[3])
                             \o ", elze: " \o DebugFmt(n[4]) \o " }"
      [] OTHER -> Tag(n) \o "(" \o DebugArgs(n, 2) \o ")"

\* `assert!(matches!(*self, Node::Triple(_, _, _)), ...)`
ExtractAssert(n) == IsTriple(n)

\* An extraction that answers a root that is not a Triple with empty texts.
ExtractChannelsSoft(n) ==
    IF IsTriple(n)
    THEN <<"Channels", DebugFmt(n[2]), DebugFmt(n[3]), DebugFmt(n[4])>>
    ELSE <<"Channels", "", "", "">>

ExtractChannels(n) ==
    IF ExtractAssert(n)
    THEN <<"Channels", DebugFmt(n[2]), DebugFmt(n[3]), DebugFmt(n[4])>>
    ELSE Panic("expected the generated node to be a Node::Triple, but found: " \o DebugFmt(n))

\* ------------------------------------------------ Grammar::build

Init ==
    /\ rules \in RuleTables
    /\ seed \in Seeds
    /\ rng = LcgNew(seed)
    /\ draws = 0
    /\ args \in [rule : 0..Len(rules), depth : 0..MaxDepth]
    /\ pc = "idle"
    /\ stack = <<>>
    /\ ret = NoRet
    /\ steps = 0
    /\ last = NoLast
    /\ log = <<>>
    /\ node = None
    /\ out = NoOut

\* A build that keeps the generator of the grammar it replaces.
BuildKeepsStream ==
    /\ pc = "idle"
    /\ log # <<>>
    /\ Len(log) < MaxCalls
    /\ rng' = rng
    /\ draws' = 0
    /\ UNCHANGED <<rules, seed, args, pc, stack, ret, steps, last, log, node, out>>

\* The caller drops the grammar and builds it again from the same rule table
\* and seed.
Build ==
    /\ pc = "idle"
    /\ log # <<>>
    /\ Len(log) < MaxCalls
    /\ rng' = LcgNew(seed)
    /\ draws' = 0
    /\ UNCHANGED <<rules, seed, args, pc, stack, ret, steps, last, log, node, out>>

\* ------------------------------------------------ Grammar::gen_rule

\* A depth test that lets depth 0 through.
DepthNegative(depth) == depth < 0

\* `if depth <= 0 { return None; }`
DepthExhausted(depth) == depth <= 0

\* `assert!(rule < self.rules.len(), "invalid rule index")`
ValidRule(rule) == rule < Len(rules)

\* `self.rules[rule].clone()` (rules are indexed from 0)
Branches(rule) == rules[rule + 1]

\* A loop that retries until an attempt succeeds.
AttemptsUnbounded(attempt) == TRUE

\* A loop that makes one attempt too many.
AttemptsLeftInclusive(attempt) == attempt <= MaxAttempts

\* `for _ in 0..100`: the loop runs while fewer than 100 attempts were made.
AttemptsLeft(attempt) == attempt < MaxAttempts

\* `cumulative_probability >= p`, with p = s / LcgM and the sum a numerator over PDen.
Reaches(cumulative, s) == cumulative * LcgM >= s * PDen

\* A walk that compares each alternate's own probability with p, the running
\* sum never accumulated.
RECURSIVE WalkNoSum(_, _, _, _)
WalkNoSum(alternates, s, i, cumulative) ==
    IF i > Len(alternates) THEN 0
    ELSE LET c == alternates[i].probability
         IN  IF Reaches(c, s) THEN i ELSE WalkNoSum(alternates, s, i + 1, c)

\* The walk over the alternates: the index of the first alternate at which the
\* running sum reaches p, or 0 when none does. i is the alternate the walk is at
\* and cumulative the sum before it.
RECURSIVE Walk(_, _, _, _)
Walk(alternates, s, i, cumulative) ==
    IF i > Len(alternates) THEN 0
    ELSE LET c == cumulative + alternates[i].probability
         IN  IF Reaches(c, s) THEN i ELSE Walk(alternates, s, i + 1, c)

SelectBranch(alternates, s) == Walk(alternates, s, 1, 0)

\* A call that starts the generator again from the seed.
CallReseeds ==
    /\ pc = "idle"
    /\ Len(log) < MaxCalls
    /\ pc' = "gen"
    /\ rng' = LcgNew(seed)
    /\ draws' = 0
    /\ stack' = << RuleFrame(args.rule, args.depth, 0) >>
    /\ ret' = NoRet
    /\ steps' = 0
    /\ last' = NoLast
    /\ out' = NoOut
    /\ UNCHANGED <<rules, seed, args, log, node>>

\* The caller calls gen_rule(args.rule, args.depth).
Call ==
    /\ pc = "idle"
    /\ Len(log) < MaxCalls
    /\ pc' = "gen"
    /\ stack' = << RuleFrame(args.rule, args.depth, draws) >>
    /\ ret' = NoRet
    /\ steps' = 0
    /\ last' = NoLast
    /\ out' = NoOut
    /\ UNCHANGED <<rules, seed, rng, draws, args, log, node>>

\* What an activation of gen_rule did, recorded when it returns v.
Returned(f, v, d) ==
    [rule |-> f.rule, depth |-> f.depth, attempt |-> f.attempt, pdraws |-> f.pdraws,
     node |-> v, start |-> f.start, end |-> d]

\* A head of gen_rule that answers an invalid rule index with no tree.
GenRuleEntrySoft ==
    /\ pc = "gen" /\ stack # <<>>
    /\ Top.fn = "gen_rule" /\ Top.at = "entry"
    /\ IF DepthExhausted(Top.depth) \/ ~ValidRule(Top.rule)
       THEN /\ stack' = Pop
            /\ ret' = None
            /\ last' = Returned(Top, None, draws)
            /\ UNCHANGED <<pc, out>>
       ELSE IF Branches(Top.rule) = <<>>
       THEN /\ pc' = "panic"
            /\ out' = Outcome("gen_rule", Fin(0), Fin(0), Res(Panic("no branches available"), 0))
            /\ UNCHANGED <<stack, ret, last>>
       ELSE /\ stack' = SetTop([Top EXCEPT !.at = "loop", !.node = None])
            /\ UNCHANGED <<ret, last, pc, out>>
    /\ UNCHANGED <<rules, seed, rng, draws, args, log, node>>

\* The head of gen_rule: the depth test, the two assertions, `let mut node = None`.
GenRuleEntry ==
    /\ pc = "gen" /\ stack # <<>>
    /\ Top.fn = "gen_rule" /\ Top.at = "entry"
    /\ IF DepthExhausted(Top.depth)
       THEN /\ stack' = Pop
            /\ ret' = None
            /\ last' = Returned(Top, None, draws)
            /\ UNCHANGED <<pc, out>>
       ELSE IF ~ValidRule(Top.rule)
       THEN /\ pc' = "panic"
            /\ out' = Outcome("gen_rule", Fin(0), Fin(0), Res(Panic("invalid rule index"), 0))
            /\ UNCHANGED <<stack, ret, last>>
       ELSE IF Branches(Top.rule) = <<>>
       THEN /\ pc' = "panic"
            /\ out' = Outcome("gen_rule", Fin(0), Fin(0), Res(Panic("no branches available"), 0))
            /\ UNCHANGED <<stack, ret, last>>
       ELSE /\ stack' = SetTop([Top EXCEPT !.at = "loop", !.node = None])
            /\ UNCHANGED <<ret, last, pc, out>>
    /\ UNCHANGED <<rules, seed, rng, draws, args, log, node>>

\* An iteration that takes the alternates out of the rule table instead of
\* cloning them.
GenRuleAttemptTakes ==
    /\ pc = "gen" /\ stack # <<>>
    /\ Top.fn = "gen_rule" /\ Top.at = "loop"
    /\ AttemptsLeft(Top.attempt)
    /\ LET s == LcgNext(rng)
           alternates == Branches(Top.rule)
           i == SelectBranch(alternates, s)
           f == [Top EXCEPT !.pdraws = @ + 1]
       IN  /\ rng' = s
           /\ draws' = draws + 1
           /\ rules' = [rules EXCEPT ![Top.rule + 1] = SubSeq(@, 1, Len(@) - 1)]
           /\ IF i # 0
              THEN stack' = Push([f EXCEPT !.at = "wait"],
                                 NodeFrame(alternates[i].node, Top.depth - 1, draws + 1))
              ELSE stack' = SetTop([f EXCEPT !.attempt = @ + 1])
    /\ UNCHANGED <<seed, args, pc, ret, last, log, node, out>>

\* One iteration of the loop up to the call of gen_node: draw p, walk the
\* alternates, and expand the selected template with depth - 1. When the walk
\* selects nothing, `node` stays None and the iteration ends.
GenRuleAttempt ==
    /\ pc = "gen" /\ stack # <<>>
    /\ Top.fn = "gen_rule" /\ Top.at = "loop"
    /\ AttemptsLeft(Top.attempt)
    /\ LET s == LcgNext(rng)
           alternates == Branches(Top.rule)
           i == SelectBranch(alternates, s)
           f == [Top EXCEPT !.pdraws = @ + 1]
       IN  /\ rng' = s
           /\ draws' = draws + 1
           /\ IF i # 0
              THEN stack' = Push([f EXCEPT !.at = "wait"],
                                 NodeFrame(alternates[i].node, Top.depth - 1, draws + 1))
              ELSE stack' = SetTop([f EXCEPT !.attempt = @ + 1])
    /\ UNCHANGED <<rules, seed, args, pc, ret, last, log, node, out>>

\* gen_node has returned into the loop: `node = ...; break;` then
\* `if node.is_some() { break; }`, and after a break the final `node`.
GenRuleResume ==
    /\ pc = "gen" /\ stack # <<>>
    /\ Top.fn = "gen_rule" /\ Top.at = "wait"
    /\ ret # NoRet
    /\ IF IsSome(ret)
       THEN /\ stack' = Pop
            /\ ret' = ret
            /\ last' = Returned(Top, ret, draws)
       ELSE /\ stack' = SetTop([Top EXCEPT !.at = "loop", !.node = ret, !.attempt = @ + 1])
            /\ ret' = NoRet
            /\ last' = last
    /\ UNCHANGED <<rules, seed, rng, draws, args, pc, log, node, out>>

\* The loop has run out: the final `node`.
GenRuleExhausted ==
    /\ pc = "gen" /\ stack # <<>>
    /\ Top.fn = "gen_rule" /\ Top.at = "loop"
    /\ ~AttemptsLeft(Top.attempt)
    /\ stack' = Pop
    /\ ret' = Top.node
    /\ last' = Returned(Top, Top.node, draws)
    /\ UNCHANGED <<rules, seed, rng, draws, args, pc, log, node, out>>

\* gen_rule has returned to the caller, who keeps the tree.
Finish ==
    /\ pc = "gen" /\ stack = <<>> /\ ret # NoRet
    /\ pc' = "idle"
    /\ log' = Append(log, [seed |-> seed, rule |-> args.rule, depth |-> args.depth,
                           start |-> last.start, end |-> draws,
                           rng |-> rng, result |-> ret])
    /\ node' = ret
    /\ ret' = NoRet
    /\ UNCHANGED <<rules, seed, rng, draws, args, stack, steps, last, out>>

\* ------------------------------------------------ Grammar::gen_node

\* A value left in [0, 1): the draw neither doubled nor shifted.
RandomValueUnscaled(s) == (s * One) \div LcgM

\* `self.rng.next_float() * 2.0 - 1.0`, with next_float = s / LcgM and the value
\* in units of 1e-6.
RandomValue(s) == ((2 * s - LcgM) * One) \div LcgM

\* A subtraction that hands the budget on unchanged.
CheckedSubKeeps(depth) == IF depth >= 1 THEN depth ELSE -1

\* `depth.checked_sub(1)`: None (here -1) when depth is 0.
CheckedSub(depth) == IF depth >= 1 THEN depth - 1 ELSE -1

\* The node a unary, binary, Triple, If or Mix arm builds from its expanded operands.
Rebuild(tmpl, operands) == <<Tag(tmpl)>> \o operands

\* An arm that expands its operands from the last to the first.
NextOperandReversed(tmpl, k) == Operands(tmpl)[Len(Operands(tmpl)) - k]

\* The operand the arm expands after k operands are done.
NextOperand(tmpl, k) == Operands(tmpl)[k + 1]

\* gen_node returns v to its caller.
NodeReturn(v) ==
    /\ stack' = Pop
    /\ ret' = v

\* `Node::X | Node::Y | Node::Number(_) | Node::Boolean(_) => Some(Box::new(node.clone()))`
GenNodeLeaf ==
    /\ pc = "gen" /\ stack # <<>>
    /\ Top.fn = "gen_node" /\ Tag(Top.tmpl) \in LeafTags
    /\ NodeReturn(Some(Top.tmpl))
    /\ UNCHANGED <<rules, seed, rng, draws, args, pc, last, log, node, out>>

\* `Node::Random`: one draw, materialised as a Number.
GenNodeRandom ==
    /\ pc = "gen" /\ stack # <<>>
    /\ Top.fn = "gen_node" /\ Tag(Top.tmpl) = "Random"
    /\ LET s == LcgNext(rng)
       IN  /\ rng' = s
           /\ draws' = draws + 1
           /\ NodeReturn(Some(Number(RandomValue(s))))
    /\ UNCHANGED <<rules, seed, args, pc, last, log, node, out>>

\* `Node::Rule(rule_index)`: None when the depth is spent, else the call of
\* gen_rule(rule_index, depth - 1).
GenNodeRule ==
    /\ pc = "gen" /\ stack # <<>>
    /\ Top.fn = "gen_node" /\ Tag(Top.tmpl) = "Rule" /\ Top.at = "entry"
    /\ LET new_depth == CheckedSub(Top.depth)
       IN  IF new_depth >= 0
           THEN /\ stack' = Push([Top EXCEPT !.at = "wait"],
                                 RuleFrame(Top.tmpl[2], new_depth, draws))
                /\ ret' = NoRet
           ELSE NodeReturn(None)
    /\ UNCHANGED <<rules, seed, rng, draws, args, pc, last, log, node, out>>

\* The Rule arm's value is what gen_rule returned.
GenNodeRuleReturn ==
    /\ pc = "gen" /\ stack # <<>>
    /\ Top.fn = "gen_node" /\ Tag(Top.tmpl) = "Rule" /\ Top.at = "wait"
    /\ ret # NoRet
    /\ NodeReturn(ret)
    /\ UNCHANGED <<rules, seed, rng, draws, args, pc, last, log, node, out>>

\* A unary, binary, Triple, If or Mix arm calls gen_node on its next operand,
\* with its own depth.
GenNodeOperand ==
    /\ pc = "gen" /\ stack # <<>>
    /\ Top.fn = "gen_node" /\ Tag(Top.tmpl) \in OperatorTags
    /\ ret = NoRet
    /\ Len(Top.done) < Len(Operands(Top.tmpl))
    /\ stack' = Push(Top, NodeFrame(NextOperand(Top.tmpl, Len(Top.done)), Top.depth, draws))
    /\ UNCHANGED <<rules, seed, rng, draws, args, pc, ret, last, log, node, out>>

\* `self.gen_node(operand, depth)?`: None returns None from the arm at once,
\* Some binds the operand.
GenNodeOperandReturn ==
    /\ pc = "gen" /\ stack # <<>>
    /\ Top.fn = "gen_node" /\ Tag(Top.tmpl) \in OperatorTags
    /\ ret # NoRet
    /\ IF IsSome(ret)
       THEN /\ stack' = SetTop([Top EXCEPT !.done = Append(@, Unwrap(ret))])
            /\ ret' = NoRet
       ELSE NodeReturn(None)
    /\ UNCHANGED <<rules, seed, rng, draws, args, pc, last, log, node, out>>

\* Every operand is expanded: the arm returns the node built from them.
GenNodeBuild ==
    /\ pc = "gen" /\ stack # <<>>
    /\ Top.fn = "gen_node" /\ Tag(Top.tmpl) \in OperatorTags
    /\ ret = NoRet
    /\ Len(Top.done) = Len(Operands(Top.tmpl))
    /\ NodeReturn(Some(Rebuild(Top.tmpl, Top.done)))
    /\ UNCHANGED <<rules, seed, rng, draws, args, pc, last, log, node, out>>


\* ------------------------------------------------ the evaluator's callers

\* Coordinates at which a generated tree is evaluated.
Coords == {Fin(0), Fin(One \div 2), Fin(-One)}

\* The caller evaluates the colour of the tree it holds at (x, y).
EvalRgbCall(x, y) ==
    /\ pc = "idle" /\ IsSome(node)
    /\ out' = Outcome("eval_rgb", x, y, EvalRgb(Unwrap(node), x, y))
    /\ UNCHANGED <<rules, seed, rng, draws, args, pc, stack, ret, steps, last, log, node>>

\* The caller renders the three channels of the tree it holds.
ExtractCall ==
    /\ pc = "idle" /\ IsSome(node)
    /\ out' = Outcome("extract", Fin(0), Fin(0), Res(ExtractChannels(Unwrap(node)), 0))
    /\ UNCHANGED <<rules, seed, rng, draws, args, pc, stack, ret, steps, last, log, node>>

\* eval applied to the tree itself.
EvalCall(x, y) ==
    /\ pc = "idle" /\ IsSome(node)
    /\ out' = Outcome("eval", x, y, Eval(Unwrap(node), x, y))
    /\ UNCHANGED <<rules, seed, rng, draws, args, pc, stack, ret, steps, last, log, node>>

\* ------------------------------------------------ specification

\* One step of the call in progress.
GenStep ==
    /\ steps' = steps + 1
    /\ \/ GenRuleEntry
       \/ GenRuleAttempt
       \/ GenRuleResume
       \/ GenRuleExhausted
       \/ GenNodeLeaf
       \/ GenNodeRandom
       \/ GenNodeRule
       \/ GenNodeRuleReturn
       \/ GenNodeOperand
       \/ GenNodeOperandReturn
       \/ GenNodeBuild

Next ==
    \/ Build
    \/ Call
    \/ GenStep
    \/ Finish
    \/ \E x \in Coords, y \in Coords : EvalRgbCall(x, y)
    \/ ExtractCall

Spec == Init /\ [][Next]_vars

\* ------------------------------------------------ the evaluator on its own

\* Coordinates and trees the evaluator is applied to.
EvalCoords == {Fin(-2), Fin(0), Fin(1), NaN}

Dividends == {X, Number(-2000), Number(7), Number(2000)}
Divisors == {Y, Number(-2), Number(-1), Number(0), Number(1), Number(2), Number(500000)}

BinaryTrees ==
    {Div(l, r) : l \in Dividends, r \in Divisors}
    \cup {Modulo(l, r) : l \in Dividends, r \in Divisors}
    \cup {Gt(l, r) : l \in Dividends, r \in Divisors}

\* Channels: with a value, without one, and ones eval must never meet.
Channels ==
    {X, Div(X, Y), Div(Number(7), Number(0)), Modulo(Y, Number(2)), Gt(X, Y), Random}

TripleTrees == {Triple(a, b, c) : a \in Channels, b \in Channels, c \in Channels}

OtherTrees ==
    {X, Y, Random, Rule(0), Number(7), Boolean(FALSE), Sqrt(X), Sin(Y), Add(X, Y),
     Mult(X, Random), If(X, Y, Random), Mix(X, Y, X, Y),
     Triple(X, Y, Triple(X, X, X))}

\* Operands with a value and without one, under every operator.
Kids == {X, Number(3), Div(X, Number(0))}

OperatorTrees ==
    {<<t, a>> : t \in UnaryTags, a \in Kids}
    \cup {<<t, a, b>> : t \in BinaryTags, a \in Kids, b \in Kids}
    \cup {If(c, t, e) : c \in Kids, t \in Kids, e \in Kids}
    \cup {Mix(a, b, c, d) : a \in Kids, b \in Kids, c \in Kids, d \in Kids}
    \cup {Add(Div(X, Number(0)), Random), If(X, Random, Y)}

TestTrees == BinaryTrees \cup TripleTrees \cup OtherTrees \cup OperatorTrees

InitEval ==
    /\ rules = DefaultRules
    /\ seed = 0
    /\ rng = LcgNew(seed)
    /\ draws = 0
    /\ args = [rule |-> 0, depth |-> 0]
    /\ pc = "idle"
    /\ stack = <<>>
    /\ ret = NoRet
    /\ steps = 0
    /\ last = NoLast
    /\ log = <<>>
    /\ node \in {Some(t) : t \in TestTrees}
    /\ out = NoOut

NextEval ==
    \/ \E x \in EvalCoords, y \in EvalCoords : EvalCall(x, y)
    \/ \E x \in EvalCoords, y \in EvalCoords : EvalRgbCall(x, y)
    \/ ExtractCall

SpecEval == InitEval /\ [][NextEval]_vars

\* ------------------------------------------------ the default grammar

\* Grammar::default(seed), and the caller's gen_rule(0, depth).
InitDefault ==
    /\ rules = DefaultRules
    /\ seed \in Seeds
    /\ rng = LcgNew(seed)
    /\ draws = 0
    /\ args \in [rule : {0}, depth : 0..MaxDefaultDepth]
    /\ pc = "idle"
    /\ stack = <<>>
    /\ ret = NoRet
    /\ steps = 0
    /\ last = NoLast
    /\ log = <<>>
    /\ node = None
    /\ out = NoOut

SpecDefault == InitDefault /\ [][Next]_vars

\* ------------------------------------------------ properties

DepthZeroNoTree ==
    /\ (last.node # NoRet /\ last.depth = 0)
          => (last.node = None /\ last.end = last.start /\ last.pdraws = 0)
    /\ args.depth = 0
          => (/\ pc # "panic"
              /\ draws = 0
              /\ rng = LcgNew(seed)
              /\ \A i \in DOMAIN log : log[i].result = None)

\* gen_rule(r, 0) has returned for an r outside the rule table.
DepthZeroWitness ==
    /\ Len(log) = 1
    /\ args.depth = 0
    /\ ~ValidRule(args.rule)
    /\ log[1].result = None

\* The node the evaluator was applied to.
Held == Unwrap(node)

\* C3. extract_channels_from_triple on a node that is not a Triple panics and
\* returns no texts; on a Triple it returns three texts, the renderings of the
\* first, second and third child in that order.
ExtractContract ==
    out.op = "extract" =>
        /\ Tag(Held) # "Triple" => (out.val[1] = "Panic" /\ Len(out.val) = 2)
        /\ Tag(Held) = "Triple" =>
              out.val = <<"Channels", DebugFmt(Held[2]), DebugFmt(Held[3]), DebugFmt(Held[4])>>
        /\ Held = Triple(X, Gt(X, Y), Div(Number(7), Number(0))) =>
              out.val = <<"Channels", "X", "Gt(X, Y)", "Div(Number(7e-6), Number(0e-6))">>

\* The extraction was called on the bare coordinate X.
ExtractWitness ==
    /\ out.op = "extract"
    /\ Held = X
    /\ out.val[1] = "Panic"

\* C4. eval_rgb on a root that is not a Triple is (0, 0, 0) at every (x, y),
\* with no node evaluated and no panic, also for Random, Rule and Boolean roots.
EvalRgbDefault ==
    (out.op = "eval_rgb" /\ Tag(Held) # "Triple")
        => (out.val = <<"Colour", Fin(0), Fin(0), Fin(0)>> /\ out.evals = 0)

\* eval_rgb was called on the root Random away from the origin.
EvalRgbDefaultWitness ==
    /\ out.op = "eval_rgb"
    /\ Held = Random
    /\ out.x = Fin(1) /\ out.y = Fin(-2)

\* A channel that eval answers with a value or with no value.
Scalar(n, x, y) == Eval(n, x, y).val[1] \in {"Some", "None"}

\* C5. eval_rgb on Triple(r, g, b) whose channels evaluate to a value or to no
\* value: a channel with no value is 0.0, and every other channel is the value
\* of its own subtree at (x, y), whatever the other channels did.
EvalRgbPerChannel ==
    (/\ out.op = "eval_rgb" /\ Tag(Held) = "Triple"
     /\ \A k \in 2..4 : Scalar(Held[k], out.x, out.y))
        => /\ out.val[1] = "Colour"
           /\ \A k \in 2..4 :
                LET e == Eval(Held[k], out.x, out.y).val
                IN  out.val[k] = IF e = None THEN Fin(0) ELSE e[2]

\* One channel has no value and another is not 0.
EvalRgbPerChannelWitness ==
    /\ out.op = "eval_rgb" /\ Tag(Held) = "Triple"
    /\ out.val[1] = "Colour"
    /\ Eval(Held[2], out.x, out.y).val = None
    /\ out.val[3] # Fin(0)
    /\ out.val[4] # Fin(0)

\* The operands of a binary node the evaluator was applied to.
Lhs == Eval(Held[2], out.x, out.y).val
Rhs == Eval(Held[3], out.x, out.y).val

\* q is l / r cut to the unit: |q| * |r| <= |l| * 10^6 < (|q| + 1) * |r|, with
\* the sign of l / r.
IsQuotient(q, l, r) ==
    /\ Abs(q) * Abs(r) <= Abs(l) * One
    /\ Abs(l) * One < (Abs(q) + 1) * Abs(r)
    /\ (q # 0 => ((q > 0) <=> ((l > 0) = (r > 0))))

\* m is the remainder of l by r: smaller than r, of the sign of l, and l - m a
\* multiple of r no larger than l.
IsRemainder(m, l, r) ==
    /\ Abs(m) < Abs(r)
    /\ (m # 0 => ((m > 0) <=> (l > 0)))
    /\ Abs(l - m) % Abs(r) = 0
    /\ Abs(l - m) <= Abs(l)

\* C9. Div(l, r) and Modulo(l, r) with both operands evaluated to numbers: no
\* value when |r| <= 1e-6 (so for r = 1e-6 and r = 0), and when |r| > 1e-6 the
\* quotient l / r for Div and the remainder of l by r for Modulo.
DivModuloThreshold ==
    (/\ out.op = "eval" /\ Tag(Held) \in {"Div", "Modulo"}
     /\ IsSome(Lhs) /\ IsSome(Rhs)
     /\ ~Lhs[2].nan /\ ~Rhs[2].nan)
        => LET l == Lhs[2].v
               r == Rhs[2].v
           IN  IF Abs(r) <= Eps
               THEN out.val = None
               ELSE /\ IsSome(out.val) /\ ~out.val[2].nan
                    /\ Tag(Held) = "Div" => IsQuotient(out.val[2].v, l, r)
                    /\ Tag(Held) = "Modulo" => IsRemainder(out.val[2].v, l, r)

\* A division by exactly 1e-6 has no value.
DivModuloWitness ==
    /\ out.op = "eval"
    /\ Held = Div(Number(7), Y)
    /\ out.y = Fin(Eps)
    /\ out.val = None

\* C10. Gt(a, b) with both operands evaluated to values is 1.0 when a > b and
\* 0.0 otherwise, equal operands included.
GtExact ==
    (/\ out.op = "eval" /\ Tag(Held) = "Gt"
     /\ IsSome(Lhs) /\ IsSome(Rhs))
        => LET a == Lhs[2]
               b == Rhs[2]
           IN  IF ~a.nan /\ ~b.nan /\ a.v > b.v
               THEN out.val = Some(Fin(One))
               ELSE out.val = Some(Fin(0))

\* Gt of two equal values is 0.0.
GtWitness ==
    /\ out.op = "eval"
    /\ Held = Gt(X, Y)
    /\ out.x = Fin(1) /\ out.y = Fin(1)
    /\ out.val = Some(Fin(0))

\* The tree a gen_rule activation has just returned, if any.
RECURSIVE HasPlaceholder(_)
HasPlaceholder(n) ==
    \/ Tag(n) \in {"Random", "Rule"}
    \/ /\ Tag(n) \in OperatorTags
       /\ \E k \in 2..Len(n) : HasPlaceholder(n[k])

\* t is an expansion of the template tmpl, through at most fuel rules: leaves
\* are copied, a Random is a Number in [-1, 1), a Rule(i) is an expansion of an
\* alternate of rule i, and an operator keeps its tag over expanded operands.
RECURSIVE Derives(_, _, _)
Derives(t, tmpl, fuel) ==
    CASE Tag(tmpl) \in {"X", "Y", "Number", "Boolean"} -> Tag(t) = Tag(tmpl) /\ t = tmpl
      [] Tag(tmpl) = "Random" -> Tag(t) = "Number" /\ t[2] >= -One /\ t[2] < One
      [] Tag(tmpl) = "Rule" ->
            /\ fuel > 0
            /\ tmpl[2] < Len(rules)
            /\ \E k \in DOMAIN rules[tmpl[2] + 1] :
                  Derives(t, rules[tmpl[2] + 1][k].node, fuel - 1)
      [] OTHER ->
            /\ Tag(t) = Tag(tmpl) /\ Len(t) = Len(tmpl)
            /\ \A k \in 2..Len(tmpl) : Derives(t[k], tmpl[k], fuel)

\* C6. A tree gen_rule returns, for any rule table, rule, depth and seed, holds
\* no Random and no Rule node: it is an expansion of the rule in which every
\* Random is a Number leaf and every Rule(i) an expansion of rule i.
NoPlaceholders ==
    /\ (last.node # NoRet /\ IsSome(last.node))
          => /\ ~HasPlaceholder(last.node[2])
             /\ Derives(last.node[2], Rule(last.rule), MaxDepth + 1)
    /\ \A i \in DOMAIN log :
          IsSome(log[i].result) => ~HasPlaceholder(log[i].result[2])

\* A tree was returned from a template that holds Rule and Random.
NoPlaceholdersWitness ==
    /\ Len(log) >= 1
    /\ rules = MixedRules
    /\ args.rule = 0
    /\ IsSome(log[1].result)
    /\ Tag(log[1].result[2]) = "Triple"
    /\ Tag(log[1].result[2][3]) = "Number"

\* The gen_rule activations on the stack, outermost first, have strictly
\* decreasing depths, and none has made more than 100 attempts.
Bounded ==
    /\ \A i \in DOMAIN stack : \A j \in DOMAIN stack :
          (i < j /\ stack[i].fn = "gen_rule" /\ stack[j].fn = "gen_rule")
             => stack[j].depth < stack[i].depth
    /\ \A i \in DOMAIN stack :
          /\ stack[i].attempt <= MaxAttempts
          /\ stack[i].depth >= 0 /\ stack[i].depth <= MaxDepth

\* The nodes of a template.
RECURSIVE Size(_)
RECURSIVE SizeFrom(_, _)
SizeFrom(n, k) == IF k > Len(n) THEN 0 ELSE Size(n[k]) + SizeFrom(n, k + 1)
Size(n) == IF Tag(n) \in OperatorTags THEN 1 + SizeFrom(n, 2) ELSE 1

\* The largest template of the rule table.
TemplateSize ==
    LET sizes == UNION {{Size(rules[r][k].node) : k \in DOMAIN rules[r]} : r \in DOMAIN rules}
    IN  IF sizes = {} THEN 1 ELSE CHOOSE m \in sizes : \A n \in sizes : n <= m

\* A bound on the steps of gen_rule(r, d): its head and its end, and 100 attempts
\* of a draw, a return and the expansion of a template, each node of which takes
\* at most 3 steps and may call gen_rule with depth d - 2.
RECURSIVE StepBound(_)
StepBound(d) ==
    IF d <= 0 THEN 1
    ELSE 2 + MaxAttempts * (2 + 3 * TemplateSize
                            + (IF d >= 2 THEN TemplateSize * StepBound(d - 2) ELSE 0))

\* C7. gen_rule always terminates: a call, also on rules that refer to
\* themselves or to each other, always has a next step until it ends (it
\* returns a tree or no tree, or the rule table names a missing or empty rule and
\* an assertion stops it), and it takes no more steps than a bound that depends
\* on the depth alone; nested gen_rule calls have strictly smaller depths and
\* each makes at most 100 attempts.
Termination ==
    /\ Bounded
    /\ steps <= StepBound(args.depth)
    /\ pc = "gen" => ENABLED (GenStep \/ Finish)
    /\ pc = "panic" => (rules = BrokenRules \/ ~ValidRule(args.rule))

\* A call on the rule that refers only to itself has returned from a depth at
\* which the gen_rule calls nest.
TerminationWitness ==
    /\ rules = LoopRules
    /\ args.depth = MaxDepth
    /\ Len(log) = 1
    /\ log[1].end >= MaxAttempts * MaxAttempts

\* The gen_rule activations in progress: each has drawn one p per attempt
\* started, at most 100, and holds no tree while it loops.
AttemptsCounted ==
    \A i \in DOMAIN stack :
        stack[i].fn = "gen_rule" =>
            /\ stack[i].attempt <= MaxAttempts
            /\ stack[i].pdraws = stack[i].attempt + (IF stack[i].at = "wait" THEN 1 ELSE 0)
            /\ stack[i].pdraws <= MaxAttempts
            /\ stack[i].at = "loop" => stack[i].node = None

\* What a gen_rule activation that entered its loop returned: a tree from its
\* first successful attempt, or no tree after 100 failed attempts and 100 p.
AttemptsReturned ==
    (last.node # NoRet /\ last.depth > 0) =>
        IF IsSome(last.node)
        THEN last.pdraws = last.attempt + 1 /\ last.pdraws <= MaxAttempts
        ELSE last.attempt = MaxAttempts /\ last.pdraws = MaxAttempts

\* A gen_rule activation that receives a tree from gen_node returns that tree
\* at once, with no further draw.
ReturnsFirstSuccess ==
    (/\ pc = "gen" /\ stack # <<>>
     /\ Top.fn = "gen_rule" /\ Top.at = "wait"
     /\ ret # NoRet /\ IsSome(ret))
        => (ret' = ret /\ stack' = Pop /\ draws' = draws /\ rng' = rng /\ pc' = "gen")

\* C8. A gen_rule invocation with depth > 0 and a valid rule makes at most 100
\* attempts, each with one selection draw p; it returns the tree of the first
\* attempt that succeeds and draws no further p; it returns no tree, without a
\* panic, exactly when all 100 attempts failed, having drawn 100 p itself.
RetryContract ==
    /\ [](AttemptsCounted /\ AttemptsReturned)
    /\ [][ReturnsFirstSuccess]_vars

\* A gen_rule activation has returned no tree after 100 attempts.
RetryWitness ==
    /\ last.node = None
    /\ last.depth > 0
    /\ last.pdraws = MaxAttempts

\* A rule index outside the rule table.
OutOfRange(i) == i >= Len(rules)

\* The running activation names a rule outside the table: gen_rule by its
\* argument, gen_node by the Rule(i) template it is about to expand.
NamesMissingRule ==
    /\ pc = "gen" /\ stack # <<>> /\ Top.at = "entry"
    /\ \/ Top.fn = "gen_rule" /\ OutOfRange(Top.rule)
       \/ Top.fn = "gen_node" /\ Tag(Top.tmpl) = "Rule" /\ OutOfRange(Top.tmpl[2])

\* The running activation returns no tree to its caller.
ReturnsNoTree == stack' = Pop /\ ret' = None

\* C11 as stated: an activation that names a rule outside the table, as the
\* argument of gen_rule or as a Rule(i) template, never returns no tree.
OutOfRangeAlwaysFatal == [][NamesMissingRule => ~ReturnsNoTree]_vars

\* gen_rule called with a rule outside the table: an abort when depth > 0, no
\* tree when depth = 0.
MissingRuleCalled ==
    (/\ pc = "gen" /\ stack # <<>>
     /\ Top.fn = "gen_rule" /\ Top.at = "entry" /\ OutOfRange(Top.rule))
        => IF Top.depth > 0
           THEN /\ pc' = "panic" /\ stack' = stack /\ ret' = ret
                /\ out'.val = Panic("invalid rule index")
           ELSE ReturnsNoTree /\ pc' = "gen"

\* A Rule(i) template with i outside the table: no tree at budget 0, else the
\* call gen_rule(i, budget - 1).
MissingRuleExpanded ==
    (/\ pc = "gen" /\ stack # <<>>
     /\ Top.fn = "gen_node" /\ Top.at = "entry"
     /\ Tag(Top.tmpl) = "Rule" /\ OutOfRange(Top.tmpl[2]))
        => IF Top.depth = 0
           THEN ReturnsNoTree
           ELSE /\ Len(stack') = Len(stack) + 1
                /\ stack'[Len(stack')].fn = "gen_rule"
                /\ stack'[Len(stack')].rule = Top.tmpl[2]
                /\ stack'[Len(stack')].depth = Top.depth - 1

\* An abort is final, and a gen_rule activation that returned for a rule outside
\* the table had depth 0 and returned no tree.
MissingRuleReturned ==
    /\ pc = "panic" => (~ENABLED Next /\ ret = NoRet)
    /\ (last.node # NoRet /\ OutOfRange(last.rule)) => (last.depth = 0 /\ last.node = None)

\* C11. A gen_rule call with depth > 0 that names a rule outside the table, made
\* by the caller or for a Rule(i) template expanded with a budget of 2 or more,
\* aborts at once and returns nothing; with depth 0 (a Rule(i) template at
\* budget 0 or 1) the index is not looked at and the answer is no tree.
OutOfRangeFatal ==
    /\ []MissingRuleReturned
    /\ [][MissingRuleCalled /\ MissingRuleExpanded]_vars

\* The expansion of a Rule(i) template with i outside the table has aborted.
OutOfRangeWitness ==
    /\ pc = "panic"
    /\ out.val = Panic("invalid rule index")
    /\ Len(stack) = 3
    /\ stack[2].tmpl = Rule(7)
    /\ ValidRule(args.rule)

\* C12. Every tree gen_rule returns, whatever the rule table (Boolean leaves and
\* Triple operands included), can be given to eval_rgb at any coordinates and
\* yields a colour, never a fatal error.
GeneratedTreeSafe ==
    out.op = "eval_rgb" => (out.val[1] = "Colour" /\ ~IsPanic(out.val))

\* The grammar's generator moves only forwards, one draw at a time.
StreamAdvances ==
    \/ rng' = rng /\ draws' = draws
    \/ rng' = LcgNext(rng) /\ draws' = draws + 1

\* C13. Generation never modifies the rule table: across every step of every
\* gen_rule call (successful, failed or retried inside) each rule keeps its
\* ordered alternates, templates and probabilities; of the grammar only the
\* generator's position changes.
RulesReadOnly ==
    [][/\ rules' = rules
       /\ pc = "gen" => StreamAdvances]_vars

\* Two calls on one grammar: the first returned a tree after a failed attempt,
\* the second went on from where the first ended.
RulesReadOnlyWitness ==
    /\ Len(log) = 2
    /\ rules = MutualRules
    /\ IsSome(log[1].result)
    /\ log[1].end > 2
    /\ log[2].start = log[1].end
    /\ log[2].end > log[2].start

\* What eval answers for the k-th element of the node the evaluator was applied to.
Kid(k) == Eval(Held[k], out.x, out.y).val

\* C14 as stated: an operator node any one of whose children has no value at
\* (x, y) has no value at (x, y).
AnyChildFails ==
    (/\ out.op = "eval" /\ Tag(Held) \in OperatorTags \ {"Triple"}
     /\ \E k \in 2..Len(Held) : Kid(k) = None)
        => out.val = None

\* C14. Soft failure propagates through the operands that are evaluated: for
\* Sqrt, Sin, Cos, Exp, Add, Mult, Div, Modulo, Gt and Mix, a child without a
\* value, every child before it having a value, leaves the node without a
\* value; for If this holds of cond and of the branch cond selects, while the
\* other branch is not evaluated and its having no value changes nothing.
SoftFailurePropagates ==
    (out.op = "eval" /\ Tag(Held) \in OperatorTags \ {"Triple"}) =>
        IF Tag(Held) = "If"
        THEN /\ Kid(2) = None => out.val = None
             /\ IsSome(Kid(2)) => out.val = Kid(Selected(Kid(2)[2]))
        ELSE \A k \in 2..Len(Held) :
                (Kid(k) = None /\ \A j \in 2..(k - 1) : IsSome(Kid(j)))
                    => out.val = None

\* A Mix whose last operand alone has no value has no value; so has an Add
\* whose first operand has none, its second never reached.
SoftFailureWitness ==
    /\ out.op = "eval"
    /\ Held = Mix(X, Number(3), X, Div(X, Number(0)))
    /\ out.x = Fin(1)
    /\ out.val = None
    /\ out.evals = 7

\* The sum of the probabilities of the first i alternates.
RECURSIVE PrefixSum(_, _)
PrefixSum(alternates, i) ==
    IF i = 0 THEN 0 ELSE PrefixSum(alternates, i - 1) + alternates[i].probability

\* The alternates whose prefix sum is >= p, for p = s / LcgM.
Reaching(alternates, s) ==
    {i \in DOMAIN alternates : PrefixSum(alternates, i) * LcgM >= s * PDen}

\* A gen_rule activation is about to start an attempt.
AttemptStarts ==
    /\ pc = "gen" /\ stack # <<>>
    /\ Top.fn = "gen_rule" /\ Top.at = "loop" /\ Top.attempt < MaxAttempts

\* An attempt draws p and expands the alternate of the smallest index whose
\* prefix sum reaches p, and that one only; when none does it expands nothing
\* and has failed.
SelectsByPrefixSum ==
    AttemptStarts =>
        LET s == LcgNext(rng)
            alternates == rules[Top.rule + 1]
            reaching == Reaching(alternates, s)
        IN  /\ rng' = s /\ draws' = draws + 1
            /\ IF reaching # {}
               THEN LET i == CHOOSE k \in reaching : \A j \in reaching : k <= j
                    IN  /\ Len(stack') = Len(stack) + 1
                        /\ stack'[Len(stack')].fn = "gen_node"
                        /\ stack'[Len(stack')].tmpl = alternates[i].node
                        /\ stack'[Len(stack) ].attempt = Top.attempt
               ELSE /\ Len(stack') = Len(stack)
                    /\ stack'[Len(stack)].attempt = Top.attempt + 1
                    /\ stack'[Len(stack)].at = "loop"

\* A failed expansion ends the attempt: nothing more is expanded for the same
\* p, and the next template a gen_rule activation expands follows a new draw.
NoFallThrough ==
    /\ (/\ pc = "gen" /\ stack # <<>>
        /\ Top.fn = "gen_rule" /\ Top.at = "wait" /\ ret = None)
          => /\ Len(stack') = Len(stack)
             /\ stack'[Len(stack)].at = "loop"
             /\ stack'[Len(stack)].attempt = Top.attempt + 1
             /\ draws' = draws /\ ret' = NoRet
    /\ (/\ pc = "gen" /\ stack # <<>>
        /\ Top.fn = "gen_rule" /\ Len(stack') > Len(stack))
          => (Top.at = "loop" /\ draws' = draws + 1)

\* C15. In one attempt gen_rule draws p and selects the alternate of the
\* smallest index i whose prefix sum of probabilities is >= p, expanding only
\* that one; with no such i the attempt expands nothing and has failed; an
\* expansion that fails is not followed by a later alternate for the same p.
Selection == [][SelectsByPrefixSum /\ NoFallThrough]_vars

\* A p has selected the second alternate of a rule whose weights sum to less
\* than 1, after failed attempts of which one selected nothing (an attempt that
\* expands the first alternate takes two draws or more, an empty one takes one).
SelectionWitness ==
    /\ rules = MutualRules
    /\ pc = "gen" /\ Len(stack) >= 2
    /\ Top.fn = "gen_node" /\ Top.at = "entry" /\ Top.tmpl = X
    /\ stack[Len(stack) - 1].rule = 0
    /\ stack[Len(stack) - 1].attempt >= 1
    /\ Top.start - stack[Len(stack) - 1].start - 1 < 2 * stack[Len(stack) - 1].attempt

\* gen_node is about to expand a Rule(i) template.
RuleTemplateStarts ==
    /\ pc = "gen" /\ stack # <<>>
    /\ Top.fn = "gen_node" /\ Top.at = "entry" /\ Tag(Top.tmpl) = "Rule"

\* gen_rule(i, b - 1) has returned to the Rule(i) template that called it.
RuleTemplateResumes ==
    /\ pc = "gen" /\ stack # <<>>
    /\ Top.fn = "gen_node" /\ Top.at = "wait" /\ Tag(Top.tmpl) = "Rule"
    /\ ret # NoRet

\* The steps that hand a depth on: gen_rule(r, d) to its template, d - 1; a
\* Rule(i) template with budget b to gen_rule, b - 1, or no tree and no draw
\* when b = 0; and the template's result is what gen_rule returned.
DepthHandedOn ==
    /\ AttemptStarts /\ Len(stack') > Len(stack)
          => (Top.depth >= 1 /\ stack'[Len(stack')].depth = Top.depth - 1)
    /\ RuleTemplateStarts =>
          IF Top.depth = 0
          THEN stack' = Pop /\ ret' = None /\ draws' = draws /\ rng' = rng
          ELSE /\ Len(stack') = Len(stack) + 1
               /\ stack'[Len(stack')].fn = "gen_rule"
               /\ stack'[Len(stack')].at = "entry"
               /\ stack'[Len(stack')].rule = Top.tmpl[2]
               /\ stack'[Len(stack')].depth = Top.depth - 1
               /\ draws' = draws
    /\ RuleTemplateResumes => (stack' = Pop /\ ret' = ret /\ draws' = draws)

\* Depths stay at 0 or above, and what a Rule(i) template with budget b receives
\* is the return value of gen_rule(i, b - 1).
DepthInRange ==
    /\ \A k \in DOMAIN stack : stack[k].depth >= 0 /\ stack[k].depth <= args.depth
    /\ RuleTemplateResumes =>
          (last.rule = Top.tmpl[2] /\ last.depth = Top.depth - 1 /\ last.node = ret)

\* C16. gen_rule(r, d) expands the selected template with budget d - 1; a
\* Rule(i) template with budget b fails without a draw when b = 0 and otherwise
\* yields the result of gen_rule(i, b - 1); no depth falls below 0.
DepthBookkeeping == []DepthInRange /\ [][DepthHandedOn]_vars

\* A Rule(1) template with budget 2 has received a tree from gen_rule(1, 1).
DepthBookkeepingWitness ==
    /\ RuleTemplateResumes
    /\ Top.tmpl = Rule(1) /\ Top.depth = 2
    /\ IsSome(ret)
    /\ last.rule = 1 /\ last.depth = 1

\* gen_node is running the arm of a unary, binary, Triple, If or Mix template.
OperatorArm ==
    /\ pc = "gen" /\ stack # <<>>
    /\ Top.fn = "gen_node" /\ Tag(Top.tmpl) \in OperatorTags

\* The number of operands of a template.
Arity(tmpl) == Len(tmpl) - 1

\* The steps of an operator arm: the operands are expanded from the first to
\* the last with the arm's own depth; a tree binds the operand; no tree ends the
\* arm at once with no tree, no further operand expanded, no draw made and the
\* operands built so far dropped with the activation; after the last operand
\* the arm returns the operator over the operands in order.
OperandsInOrder ==
    /\ (OperatorArm /\ ret = NoRet /\ Len(Top.done) < Arity(Top.tmpl))
          => /\ Len(stack') = Len(stack) + 1
             /\ stack'[Len(stack)] = Top
             /\ stack'[Len(stack')].fn = "gen_node"
             /\ stack'[Len(stack')].tmpl = Top.tmpl[Len(Top.done) + 2]
             /\ stack'[Len(stack')].depth = Top.depth
             /\ draws' = draws
    /\ (OperatorArm /\ ret # NoRet /\ IsSome(ret))
          => /\ Len(stack') = Len(stack)
             /\ stack'[Len(stack)].done = Append(Top.done, ret[2])
             /\ ret' = NoRet /\ draws' = draws
    /\ (OperatorArm /\ ret = None)
          => (stack' = Pop /\ ret' = None /\ draws' = draws /\ rng' = rng)
    /\ (OperatorArm /\ ret = NoRet /\ Len(Top.done) = Arity(Top.tmpl))
          => /\ stack' = Pop
             /\ IsSome(ret') /\ Tag(ret'[2]) = Tag(Top.tmpl)
             /\ \A k \in 1..Arity(Top.tmpl) : ret'[2][k + 1] = Top.done[k]

\* End to end: the only alternate of rule 0 of MixedRules is
\* Triple(Rule(1), Random, Sin(Rule(1))); at depth 1 or 2 its first operand
\* fails, so each of the 100 attempts takes the one draw of its p and the Random
\* operand is never expanded.
LaterOperandsUntouched ==
    (rules = MixedRules /\ args.rule = 0 /\ args.depth \in 1..2) =>
        \A i \in DOMAIN log :
            log[i].result = None /\ log[i].end - log[i].start = MaxAttempts

\* C17. A unary, binary, If, Triple or Mix template expands its operands from
\* left to right, each with the template's own depth budget, and stops at the
\* first operand that fails: the template then fails, the later operands are
\* not expanded and take no draws, and the operands already built are dropped.
OperandOrder == []LaterOperandsUntouched /\ [][OperandsInOrder]_vars

\* The second operand of Add(Random, Rule(1)) has failed after the first was
\* built.
OperandOrderWitness ==
    /\ OperatorArm
    /\ Top.tmpl = Add(Random, Rule(1))
    /\ Len(Top.done) = 1 /\ Tag(Top.done[1]) = "Number"
    /\ ret = None

\* gen_node is about to expand a Random template.
RandomStarts ==
    /\ pc = "gen" /\ stack # <<>>
    /\ Top.fn = "gen_node" /\ Tag(Top.tmpl) = "Random"

\* The expansion of Random: one draw u = s / LcgM, and the Number 2u - 1.
RandomMaterialised ==
    RandomStarts =>
        LET s == LcgNext(rng)
        IN  /\ 0 <= s /\ s < LcgM
            /\ rng' = s /\ draws' = draws + 1
            /\ stack' = Pop
            /\ IsSome(ret') /\ Tag(ret'[2]) = "Number" /\ Len(ret'[2]) = 2
            /\ ret'[2][2] * LcgM = (2 * s - LcgM) * One
            /\ ret'[2][2] >= -One /\ ret'[2][2] <= One

\* A Random template always has its step, at every budget, and a Number leaf
\* handed back during generation lies in [-1, 1].
RandomInRange ==
    /\ RandomStarts => (Top.at = "entry" /\ ENABLED GenNodeRandom)
    /\ (pc = "gen" /\ ret # NoRet /\ IsSome(ret) /\ Tag(ret[2]) = "Number")
          => (ret[2][2] >= -One /\ ret[2][2] <= One)

\* C18. Expanding a Random template succeeds at every depth budget, takes
\* exactly one draw u in [0, 1) and yields the leaf Number(2u - 1), which lies
\* in [-1, 1].
RandomToNumber == []RandomInRange /\ [][RandomMaterialised]_vars

\* A Random operand expanded with budget 0 has become a negative Number.
RandomToNumberWitness ==
    /\ OperatorArm
    /\ Top.depth = 0
    /\ ret # NoRet /\ IsSome(ret)
    /\ Len(Top.done) < Arity(Top.tmpl)
    /\ Top.tmpl[Len(Top.done) + 2] = Random
    /\ Tag(ret[2]) = "Number" /\ ret[2][2] < 0

\* The invocations of eval made for the k-th element of the node the evaluator
\* was applied to.
KidEvals(k) == Eval(Held[k], out.x, out.y).evals

SqrtOfValue == out.op = "eval" /\ Tag(Held) = "Sqrt" /\ IsSome(Kid(2))

\* C20 as stated: the square root of a negative value is not-a-number, the
\* clamp leaves it so, and the node yields not-a-number.
SqrtNegativeIsNaN ==
    (SqrtOfValue /\ ~Kid(2)[2].nan /\ Kid(2)[2].v < 0) => out.val = Some(NaN)

\* C20. Sqrt(inner) takes the square root first and clamps afterwards with
\* max(0.0); for a negative inner value the root is not-a-number, which the
\* clamp replaces by 0.0 (the maximum of not-a-number and 0.0 is 0.0), so the
\* node yields 0.0; for a value >= 0 it yields the root, which is >= 0.
SqrtClamped ==
    SqrtOfValue =>
        IF Kid(2)[2].nan \/ Kid(2)[2].v < 0
        THEN out.val = Some(Fin(0))
        ELSE /\ IsSome(out.val) /\ ~out.val[2].nan
             /\ LET r == out.val[2].v \div 1000
                 IN  /\ out.val[2].v = 1000 * r /\ r >= 0
                     /\ r * r <= Kid(2)[2].v
                     /\ Kid(2)[2].v < (r + 1) * (r + 1)

\* Sqrt of a negative coordinate is 0.0.
SqrtClampedWitness ==
    /\ out.op = "eval"
    /\ Held = Sqrt(X)
    /\ out.x = Fin(-2)
    /\ out.val = Some(Fin(0))

\* A call starts at the position the grammar's generator is at, and its return
\* leaves the generator where the call's last draw put it, tree or no tree.
CallsChain ==
    /\ (pc = "idle" /\ pc' = "gen")
          => (stack'[1].start = draws /\ draws' = draws /\ rng' = rng)
    /\ (pc = "gen" /\ pc' = "idle")
          => /\ draws' = draws /\ rng' = rng
             /\ log'[Len(log')].end = draws
             /\ log'[Len(log')].start <= draws
    /\ (pc = "gen" /\ stack # <<>> /\ ret = None)
          => (draws' = draws /\ rng' = rng)

\* The completed calls follow one another on the stream: each starts where the
\* one before ended, unless the grammar was built again in between.
CallsFollow ==
    \A i \in DOMAIN log :
        /\ log[i].start <= log[i].end
        /\ i > 1 => log[i].start \in {0, log[i - 1].end}

\* C21. The stream of one Grammar is never reset or rolled back: short of
\* building the grammar again, the number of draws never decreases, the draws
\* of failed attempts and of calls without a tree are not given back, and each
\* call starts where the one before ended, so a second gen_rule(r, d) on the
\* same grammar need not return the tree of the first.
StreamNeverReset ==
    /\ []CallsFollow
    /\ [][Build \/ (StreamAdvances /\ CallsChain)]_vars

\* Two calls gen_rule(r, d) on one grammar have returned different trees.
StreamNeverResetWitness ==
    /\ Len(log) = 2
    /\ log[1].end > 0
    /\ log[2].start = log[1].end
    /\ IsSome(log[1].result) /\ IsSome(log[2].result)
    /\ log[1].result # log[2].result

\* C22. With the default grammar gen_rule(0, d) returns no tree for every
\* d <= 4 and every seed: a rule crossing costs two depth units and a leaf lies
\* three crossings from rule 0; d = 5 is the smallest depth with a tree.
DefaultNeedsDepthFive ==
    /\ \A i \in DOMAIN log : IsSome(log[i].result) => log[i].depth >= 5
    /\ (last.node # NoRet /\ IsSome(last.node)) => last.depth >= 5 - 2 * last.rule
    /\ args.depth <= 4 => (node = None /\ pc # "panic")

\* gen_rule(0, 5) has returned a tree, after attempts that failed.
DefaultDepthFiveWitness ==
    /\ rules = DefaultRules
    /\ args.depth = 5
    /\ Len(log) >= 1
    /\ log[1].depth = 5
    /\ IsSome(log[1].result)
    /\ log[1].end - log[1].start > MaxAttempts

\* The variants a channel of a default-grammar tree is made of.
ChannelTags == {"X", "Y", "Number", "Add", "Mult", "Sin", "Cos", "Exp", "Sqrt", "Div", "Mix"}

\* Every node of n is of a variant in tags.
RECURSIVE MadeOf(_, _)
MadeOf(n, tags) ==
    /\ Tag(n) \in tags
    /\ Tag(n) \in OperatorTags => \A k \in 2..Len(n) : MadeOf(n[k], tags)

\* A tree of the default grammar: a Triple over three channels.
DefaultShape(t) ==
    /\ Tag(t) = "Triple" /\ Len(t) = 4
    /\ \A k \in 2..4 : MadeOf(t[k], ChannelTags)

\* C23. With the default grammar every tree gen_rule(0, d) returns is a Triple
\* whose three subtrees hold only X, Y, Number, Add, Mult, Sin, Cos, Exp, Sqrt,
\* Div and Mix nodes, and extract_channels_from_triple and eval_rgb on it raise
\* no fatal error.
DefaultTreeShape ==
    /\ pc # "panic"
    /\ \A i \in DOMAIN log : IsSome(log[i].result) => DefaultShape(log[i].result[2])
    /\ IsSome(node) => DefaultShape(node[2])
    /\ out.op = "eval_rgb" => (out.val[1] = "Colour" /\ out.evals >= 3)
    /\ out.op = "extract" => (out.val[1] = "Channels" /\ Len(out.val) = 4)

\* eval_rgb has coloured a tree of the default grammar that has an operator in
\* its first channel.
DefaultTreeShapeWitness ==
    /\ rules = DefaultRules
    /\ IsSome(node)
    /\ Tag(node[2][2]) \in OperatorTags
    /\ out.op = "eval_rgb"
    /\ out.val[1] = "Colour"

====
